---- MODULE Spec2Model ----
(***************************************************************************)
(* whisper-watch: the file-intake pipeline of src/whisper-watch.py.        *)
(*                                                                         *)
(* One Job is one run of TranscriptionHandler.on_created.  Jobs run        *)
(* concurrently and interleave at every filesystem operation.  The watch,  *)
(* pending and output directories are shared by all Jobs.                  *)
(*                                                                         *)
(* A file name is the sequence of its dot-separated components:            *)
(* "a.mp4" is <<"a","mp4">>, ".a.mp4" is <<"","a","mp4">>, and the claim   *)
(* marker "a.mp4.processing" is <<"a","mp4","processing">>.                *)
(***************************************************************************)
EXTENDS Integers, Sequences, FiniteSets, TLC

(* ------------------------------ bounds -------------------------------- *)
NJobs == 2          \* concurrent on_created runs
MaxDrops == 2       \* files the environment drops into the watch directory
MaxTime == 3        \* the clock runs 0..MaxTime (seconds)
MaxTimeWait == 31   \* the clock of the completion-wait specification
MaxSize == 2        \* a file grows up to MaxSize bytes

(* ------------------------- program constants -------------------------- *)
timeout == 30
check_interval == 1
ChunkGap == 2 * check_interval   \* the two chunks of the completion scenario

Jobs == 1..NJobs

(* names the environment drops, and entries that are in watch from the start *)
VideoName == <<"a", "mp4">>
AudioName == <<"a", "WAV">>
HiddenName == <<"", "a", "mp4">>
TextName == <<"b", "txt">>
DirName == <<"d", "mp4">>
DropNames == {VideoName, AudioName}
StaticNames == {HiddenName, TextName, DirName}
EntryNames == DropNames \cup StaticNames

NoName == <<>>
NoFolder == <<>>
Marker == 0         \* the content of a claim marker: an empty file
StaticId(n) == CASE n = HiddenName -> 1 [] n = TextName -> 2 [] OTHER -> 3
FirstDropId == Cardinality(StaticNames) + 1

(* ------------------------- pure path functions ------------------------ *)
\* str.lower() on the components that occur
Lower(s) ==
    CASE s = "MP4" -> "mp4"
      [] s = "WAV" -> "wav"
      [] OTHER -> s

\* PurePath.suffix: the part after the last dot, unless that dot is the first
\* character of the name or the last one
HasSuffix(n) ==
    /\ Len(n) >= 2
    /\ n[Len(n)] # ""
    /\ ~(Len(n) = 2 /\ n[1] = "")

Suffix(n) == IF HasSuffix(n) THEN <<n[Len(n)]>> ELSE <<>>

\* PurePath.stem: the name without its suffix
Stem(n) == IF HasSuffix(n) THEN SubSeq(n, 1, Len(n) - 1) ELSE n

\* PurePath.with_suffix(suffix): stem + suffix
WithSuffix(n, suf) == Stem(n) \o suf

\* str.startswith('.')
StartsWithDot(n) == Len(n) >= 2 /\ n[1] = ""

SupportedSuffixes == {"mp4", "mkv", "avi", "mov", "mp3", "wav", "m4a"}
VideoSuffixes == {"mp4", "mkv", "avi", "mov"}

\* the suffix taken after the first dot of the name instead of the last
SuffixLowerFirst(n) == IF HasSuffix(n) THEN Lower(n[2]) ELSE ""

\* line 49: input_file.suffix.lower()
SuffixLower(n) == IF HasSuffix(n) THEN Lower(n[Len(n)]) ELSE ""

\* the filter without the hidden-name test of line 45
PassesFilterNoHidden(is_directory, n) ==
    /\ ~is_directory
    /\ SuffixLower(n) \in SupportedSuffixes

\* lines 40-51: the event passes the filter
PassesFilter(is_directory, n) ==
    /\ ~is_directory
    /\ ~StartsWithDot(n)
    /\ SuffixLower(n) \in SupportedSuffixes

\* line 72
LockFile(n) == WithSuffix(n, Suffix(n) \o <<"processing">>)

\* line 93
IsVideo(n) == SuffixLower(n) \in VideoSuffixes

\* line 84: <stem>_<timestamp>, the timestamp at one-second resolution
OutputFolder(n, ts) == <<Stem(n), ts>>

(* ------------------------------- state -------------------------------- *)
VARIABLES
    now,        \* time.time() / datetime.now(), in seconds
    watch,      \* watch directory: name -> file id (a marker is the id Marker)
    pending,    \* pending directory: name -> file id
    out,        \* output directory: folder -> its files
    size,       \* file id -> st_size
    nextId,     \* id of the next dropped file
    writer,     \* the writer of the two-chunk scenario
    job         \* per Job: position in on_created and its locals

vars == <<now, watch, pending, out, size, nextId, writer, job>>

Empty == [x \in {} |-> 0]
Remove(f, n) == [x \in DOMAIN f \ {n} |-> f[x]]
Put(f, n, v) == (n :> v) @@ f
NoId == 0 - 1

NewJob ==
    [pc |-> "idle", src |-> NoName, is_directory |-> FALSE,
     last_size |-> -1, start_time |-> 0, wake |-> 0, samples |-> <<>>,
     output_folder |-> NoFolder, pending_bound |-> FALSE,
     claimed |-> FALSE, staged |-> NoId, outcome |-> "none", escaped |-> FALSE]

NewFolder == [transcript |-> 0, stats |-> 0, audio |-> 0, media |-> Empty]

Init ==
    /\ now = 0
    /\ watch = [n \in StaticNames |-> StaticId(n)]
    /\ pending = Empty
    /\ out = Empty
    /\ size = [i \in {Marker} \cup {StaticId(n) : n \in StaticNames} |->
                 IF i = Marker THEN 0 ELSE 1]
    /\ nextId = FirstDropId
    /\ writer = [chunks |-> 0, wrote |-> 0, id |-> NoId]
    /\ job = [j \in Jobs |-> NewJob]

Set(j, r) == job' = [job EXCEPT ![j] = r]
FsUnchanged == UNCHANGED <<watch, pending, out, size, nextId, writer>>

(* ----------------------------- environment ---------------------------- *)
\* the clock; it does not pass the moment the second chunk is due
Tick ==
    /\ now < MaxTime
    /\ writer.chunks = 1 => now < writer.wrote + ChunkGap
    /\ now' = now + 1
    /\ UNCHANGED <<watch, pending, out, size, nextId, writer, job>>

\* somebody drops a complete media file into the watch directory
Drop(n) ==
    /\ n \notin DOMAIN watch
    /\ nextId < FirstDropId + MaxDrops
    /\ watch' = Put(watch, n, nextId)
    /\ size' = Put(size, nextId, 1)
    /\ nextId' = nextId + 1
    /\ UNCHANGED <<now, pending, out, writer, job>>

\* somebody starts writing a media file: the first chunk lands
DropChunked(n) ==
    /\ writer.chunks = 0
    /\ n \notin DOMAIN watch
    /\ nextId < FirstDropId + MaxDrops
    /\ watch' = Put(watch, n, nextId)
    /\ size' = Put(size, nextId, 1)
    /\ nextId' = nextId + 1
    /\ writer' = [chunks |-> 1, wrote |-> now, id |-> nextId]
    /\ UNCHANGED <<now, pending, out, job>>

\* the second chunk lands ChunkGap seconds after the first
Chunk2 ==
    /\ writer.chunks = 1
    /\ now = writer.wrote + ChunkGap
    /\ size' = [size EXCEPT ![writer.id] = @ + 1]
    /\ writer' = [writer EXCEPT !.chunks = 2, !.wrote = now]
    /\ UNCHANGED <<now, watch, pending, out, nextId, job>>

\* the clock of the completion-wait specification: a second passes while
\* the Job sleeps at line 29, and the Job wakes when its interval is over,
\* so that its samples are one check_interval apart
TickWait ==
    /\ now < MaxTimeWait
    /\ \E j \in Jobs : job[j].pc = "sleep" /\ now < job[j].wake
    /\ now' = now + 1
    /\ UNCHANGED <<watch, pending, out, size, nextId, writer, job>>

\* somebody creates a media file in the watch directory, empty or with its
\* first bytes
DropSized(n, s) ==
    /\ n \notin DOMAIN watch
    /\ nextId < FirstDropId + MaxDrops
    /\ watch' = Put(watch, n, nextId)
    /\ size' = Put(size, nextId, s)
    /\ nextId' = nextId + 1
    /\ UNCHANGED <<now, pending, out, writer, job>>

\* the writer appends to a file of the watch directory
Write(n) ==
    /\ n \in DOMAIN watch
    /\ size[watch[n]] < MaxSize
    /\ size' = [size EXCEPT ![watch[n]] = @ + 1]
    /\ UNCHANGED <<now, watch, pending, out, nextId, writer, job>>

\* somebody removes a file from the watch directory
Delete(n) ==
    /\ n \in DOMAIN watch
    /\ watch' = Remove(watch, n)
    /\ UNCHANGED <<now, pending, out, size, nextId, writer, job>>

(* ------------------- wait_for_file_completion (15-30) ----------------- *)
\* lines 21-29: one pass of the loop up to the sleep.  The result is the
\* Job's next position: "exists2" for True, "done" for False.  The locals
\* of the function are gone when it returns.  samples is the history of
\* the sizes read at line 23, kept until the caller has looked at the result.
Returned(r, pc, outcome) ==
    [r EXCEPT !.pc = pc, !.outcome = outcome,
              !.last_size = -1, !.start_time = 0, !.wake = 0, !.samples = <<>>]

\* the loop without the test current_size > 0 of line 25
PollAcceptsEmpty(j) ==
    LET r == job[j] IN
    /\ r.pc = "poll"
    /\ FsUnchanged /\ UNCHANGED now
    /\ IF ~(now - r.start_time < timeout)
       THEN Set(j, Returned(r, "done", "timeout"))
       ELSE IF r.src \notin DOMAIN watch
       THEN Set(j, Returned(r, "done", "gone"))
       ELSE LET current_size == size[watch[r.src]] IN
            IF current_size = r.last_size
            THEN Set(j, [Returned(r, "exists2", "none") EXCEPT
                            !.samples = Append(r.samples, current_size)])
            ELSE Set(j, [r EXCEPT !.pc = "sleep", !.last_size = current_size,
                                  !.wake = now + check_interval,
                                  !.samples = Append(r.samples, current_size)])

Poll(j) ==
    LET r == job[j] IN
    /\ r.pc = "poll"
    /\ FsUnchanged /\ UNCHANGED now
    /\ IF ~(now - r.start_time < timeout)
       THEN Set(j, Returned(r, "done", "timeout"))
       ELSE IF r.src \notin DOMAIN watch
       THEN Set(j, Returned(r, "done", "gone"))
       ELSE LET current_size == size[watch[r.src]] IN
            IF current_size = r.last_size /\ current_size > 0
            THEN Set(j, [Returned(r, "exists2", "none") EXCEPT
                            !.samples = Append(r.samples, current_size)])
            ELSE Set(j, [r EXCEPT !.pc = "sleep", !.last_size = current_size,
                                  !.wake = now + check_interval,
                                  !.samples = Append(r.samples, current_size)])

\* line 27: time.sleep(check_interval) returns
Sleep(j) ==
    LET r == job[j] IN
    /\ r.pc = "sleep"
    /\ now >= r.wake
    /\ Set(j, [r EXCEPT !.pc = "poll", !.wake = 0])
    /\ FsUnchanged /\ UNCHANGED now

(* --------------------- on_created (39-140), by step ------------------- *)
\* lines 39-51: a creation event for an entry of the watch directory is
\* dispatched to a new Job (Jobs are numbered in dispatch order)
OnCreated(j, n) ==
    LET r == job[j]
        isdir == (n = DirName) IN
    /\ r.pc = "idle"
    /\ j > 1 => job[j - 1].pc # "idle"
    /\ n \in DOMAIN watch
    /\ IF PassesFilter(isdir, n)
       THEN Set(j, [r EXCEPT !.pc = "exists1", !.src = n, !.is_directory = isdir])
       ELSE Set(j, [r EXCEPT !.pc = "done", !.src = n, !.is_directory = isdir,
                             !.outcome = "ignored"])
    /\ FsUnchanged /\ UNCHANGED now

\* lines 54-59: exists check, then wait_for_file_completion starts
Exists1(j) ==
    LET r == job[j] IN
    /\ r.pc = "exists1"
    /\ IF r.src \in DOMAIN watch
       THEN Set(j, [r EXCEPT !.pc = "poll", !.last_size = -1, !.start_time = now])
       ELSE Set(j, [r EXCEPT !.pc = "done", !.outcome = "gone"])
    /\ FsUnchanged /\ UNCHANGED now

\* the handler without the second look of lines 64-66
Exists2NoRecheck(j) ==
    LET r == job[j] IN
    /\ r.pc = "exists2"
    /\ Set(j, [r EXCEPT !.pc = "lockcheck", !.samples = <<>>])
    /\ FsUnchanged /\ UNCHANGED now

\* line 64
Exists2(j) ==
    LET r == job[j] IN
    /\ r.pc = "exists2"
    /\ IF r.src \in DOMAIN watch
       THEN Set(j, [r EXCEPT !.pc = "lockcheck", !.samples = <<>>])
       ELSE Set(j, [r EXCEPT !.pc = "done", !.outcome = "gone", !.samples = <<>>])
    /\ FsUnchanged /\ UNCHANGED now

\* lines 72-75: lock_file.exists(); the return runs the finally clause
LockCheck(j) ==
    LET r == job[j] IN
    /\ r.pc = "lockcheck"
    /\ IF LockFile(r.src) \in DOMAIN watch
       THEN Set(j, [r EXCEPT !.pc = "finally", !.outcome = "abandoned"])
       ELSE Set(j, [r EXCEPT !.pc = "touch"])
    /\ FsUnchanged /\ UNCHANGED now

\* line 78: lock_file.touch() creates the marker unless it is there
Touch(j) ==
    LET r == job[j] IN
    /\ r.pc = "touch"
    /\ UNCHANGED <<now, pending, out, size, nextId, writer>>
    /\ \/ /\ watch' = IF LockFile(r.src) \in DOMAIN watch THEN watch
                      ELSE Put(watch, LockFile(r.src), Marker)
          /\ Set(j, [r EXCEPT !.pc = "mkdir", !.claimed = TRUE])
       \/ /\ UNCHANGED watch
          /\ Set(j, [r EXCEPT !.pc = "except", !.outcome = "failed"])

\* lines 80-88: the timestamp, output_folder.mkdir(exist_ok=True), pending_path
Mkdir(j) ==
    LET r == job[j]
        f == OutputFolder(r.src, now) IN
    /\ r.pc = "mkdir"
    /\ UNCHANGED <<now, watch, pending, size, nextId, writer>>
    /\ \/ /\ out' = IF f \in DOMAIN out THEN out ELSE Put(out, f, NewFolder)
          /\ Set(j, [r EXCEPT !.pc = "move1", !.output_folder = f,
                              !.pending_bound = TRUE])
       \/ /\ UNCHANGED out
          /\ Set(j, [r EXCEPT !.pc = "except", !.output_folder = f,
                              !.outcome = "failed"])

\* line 89: shutil.move(input_file, pending_path), a rename that replaces
\* a file already at the destination
ToPending(j) ==
    LET r == job[j] IN
    /\ r.pc = "move1"
    /\ UNCHANGED <<now, out, size, nextId, writer>>
    /\ \/ /\ r.src \in DOMAIN watch
          /\ pending' = Put(pending, r.src, watch[r.src])
          /\ watch' = Remove(watch, r.src)
          /\ Set(j, [r EXCEPT !.pc = IF IsVideo(r.src) THEN "extract" ELSE "transcribe",
                              !.staged = watch[r.src]])
       \/ /\ UNCHANGED <<watch, pending>>
          /\ Set(j, [r EXCEPT !.pc = "except", !.outcome = "failed"])

\* lines 94-98: ffmpeg reads pending_path and writes extracted_audio.wav
Extract(j) ==
    LET r == job[j] IN
    /\ r.pc = "extract"
    /\ UNCHANGED <<now, watch, pending, size, nextId, writer>>
    /\ \/ /\ r.src \in DOMAIN pending
          /\ out' = [out EXCEPT ![r.output_folder].audio = j]
          /\ Set(j, [r EXCEPT !.pc = "transcribe"])
       \/ /\ UNCHANGED out
          /\ Set(j, [r EXCEPT !.pc = "except", !.outcome = "failed"])

\* line 107: model.transcribe(audio_path); audio_path is the extracted
\* audio of a video and pending_path otherwise
Transcribe(j) ==
    LET r == job[j] IN
    /\ r.pc = "transcribe"
    /\ FsUnchanged /\ UNCHANGED now
    /\ \/ /\ IsVideo(r.src) \/ r.src \in DOMAIN pending
          /\ Set(j, [r EXCEPT !.pc = "write_t"])
       \/ Set(j, [r EXCEPT !.pc = "except", !.outcome = "failed"])

\* the transcript write with its failure swallowed
WriteTranscriptSwallowed(j) ==
    LET r == job[j] IN
    /\ r.pc = "write_t"
    /\ UNCHANGED <<now, watch, pending, size, nextId, writer>>
    /\ \/ /\ out' = [out EXCEPT ![r.output_folder].transcript = j]
          /\ Set(j, [r EXCEPT !.pc = "write_s"])
       \/ /\ UNCHANGED out
          /\ Set(j, [r EXCEPT !.pc = "write_s"])

\* lines 116-118: open(transcript_path, "w") and write
WriteTranscript(j) ==
    LET r == job[j] IN
    /\ r.pc = "write_t"
    /\ UNCHANGED <<now, watch, pending, size, nextId, writer>>
    /\ \/ /\ out' = [out EXCEPT ![r.output_folder].transcript = j]
          /\ Set(j, [r EXCEPT !.pc = "write_s"])
       \/ /\ UNCHANGED out
          /\ Set(j, [r EXCEPT !.pc = "except", !.outcome = "failed"])

\* the stats write with its failure swallowed
WriteStatsSwallowed(j) ==
    LET r == job[j] IN
    /\ r.pc = "write_s"
    /\ UNCHANGED <<now, watch, pending, size, nextId, writer>>
    /\ \/ /\ out' = [out EXCEPT ![r.output_folder].stats = j]
          /\ Set(j, [r EXCEPT !.pc = "move2"])
       \/ /\ UNCHANGED out
          /\ Set(j, [r EXCEPT !.pc = "move2"])

\* lines 121-123: open(stats_path, "w") and json.dump
WriteStats(j) ==
    LET r == job[j] IN
    /\ r.pc = "write_s"
    /\ UNCHANGED <<now, watch, pending, size, nextId, writer>>
    /\ \/ /\ out' = [out EXCEPT ![r.output_folder].stats = j]
          /\ Set(j, [r EXCEPT !.pc = "move2"])
       \/ /\ UNCHANGED out
          /\ Set(j, [r EXCEPT !.pc = "except", !.outcome = "failed"])

\* lines 126-130: shutil.move(pending_path, final_media_path)
ToOutput(j) ==
    LET r == job[j] IN
    /\ r.pc = "move2"
    /\ UNCHANGED <<now, watch, size, nextId, writer>>
    /\ \/ /\ r.src \in DOMAIN pending
          /\ out' = [out EXCEPT ![r.output_folder].media = Put(@, r.src, pending[r.src])]
          /\ pending' = Remove(pending, r.src)
          /\ Set(j, [r EXCEPT !.pc = "finally", !.outcome = "finalized"])
       \/ /\ UNCHANGED <<out, pending>>
          /\ Set(j, [r EXCEPT !.pc = "except", !.outcome = "failed"])

\* lines 132-135: the handler; pending_path is unbound when the failure
\* came before line 88, and reading it raises out of the handler
Except(j) ==
    LET r == job[j] IN
    /\ r.pc = "except"
    /\ FsUnchanged /\ UNCHANGED now
    /\ IF ~r.pending_bound
       THEN Set(j, [r EXCEPT !.pc = "finally", !.escaped = TRUE])
       ELSE IF r.src \in DOMAIN pending
       THEN Set(j, [r EXCEPT !.pc = "rollback"])
       ELSE Set(j, [r EXCEPT !.pc = "finally"])

\* line 136: shutil.move(pending_path, input_file); it raises when the
\* pending file went away after the check of line 135
ToWatch(j) ==
    LET r == job[j] IN
    /\ r.pc = "rollback"
    /\ UNCHANGED <<now, out, size, nextId, writer>>
    /\ IF r.src \in DOMAIN pending
       THEN /\ watch' = Put(watch, r.src, pending[r.src])
            /\ pending' = Remove(pending, r.src)
            /\ Set(j, [r EXCEPT !.pc = "finally", !.outcome = "rolledback"])
       ELSE /\ UNCHANGED <<watch, pending>>
            /\ Set(j, [r EXCEPT !.pc = "finally", !.escaped = TRUE])

\* the release at the end of the try body instead of in a finally clause
FinallyOnSuccessOnly(j) ==
    LET r == job[j] IN
    /\ r.pc = "finally"
    /\ FsUnchanged /\ UNCHANGED now
    /\ IF LockFile(r.src) \in DOMAIN watch /\ r.outcome \in {"finalized", "abandoned"}
       THEN Set(j, [r EXCEPT !.pc = "unlink"])
       ELSE Set(j, [r EXCEPT !.pc = "done"])

\* line 139: the finally clause, lock_file.exists()
Finally(j) ==
    LET r == job[j] IN
    /\ r.pc = "finally"
    /\ FsUnchanged /\ UNCHANGED now
    /\ IF LockFile(r.src) \in DOMAIN watch
       THEN Set(j, [r EXCEPT !.pc = "unlink"])
       ELSE Set(j, [r EXCEPT !.pc = "done"])

\* line 140: lock_file.unlink(); it raises when the marker went away after
\* the check of line 139
Unlink(j) ==
    LET r == job[j] IN
    /\ r.pc = "unlink"
    /\ UNCHANGED <<now, pending, out, size, nextId, writer>>
    /\ IF LockFile(r.src) \in DOMAIN watch
       THEN /\ watch' = Remove(watch, LockFile(r.src))
            /\ Set(j, [r EXCEPT !.pc = "done"])
       ELSE /\ UNCHANGED watch
            /\ Set(j, [r EXCEPT !.pc = "done", !.escaped = TRUE])

JobStep(j) ==
    \/ \E n \in DOMAIN watch : OnCreated(j, n)
    \/ Exists1(j) \/ Poll(j) \/ Sleep(j) \/ Exists2(j)
    \/ LockCheck(j) \/ Touch(j) \/ Mkdir(j) \/ ToPending(j)
    \/ Extract(j) \/ Transcribe(j) \/ WriteTranscript(j) \/ WriteStats(j)
    \/ ToOutput(j) \/ Except(j) \/ ToWatch(j) \/ Finally(j) \/ Unlink(j)

Next ==
    \/ Tick
    \/ \E n \in DropNames : Drop(n)
    \/ \E j \in Jobs : JobStep(j)

Spec == Init /\ [][Next]_vars

\* the two-chunk scenario: the file is dropped by a writer that writes it in
\* two chunks
NextChunks ==
    \/ Tick
    \/ \E n \in DropNames : DropChunked(n)
    \/ Chunk2
    \/ \E j \in Jobs : JobStep(j)

SpecChunks == Init /\ [][NextChunks]_vars

\* the completion wait: one Job at a time, files that are created empty or
\* partial, grow, and may be removed while the Job polls
NextWait ==
    \/ TickWait
    \/ \E n \in DropNames, s \in 0..1 : DropSized(n, s)
    \/ \E n \in DropNames : Write(n)
    \/ \E n \in DropNames : Delete(n)
    \/ JobStep(1)

SpecWait == Init /\ [][NextWait]_vars

(* ------------------------------- claims ------------------------------- *)
InFlight(j) == job[j].pc \notin {"idle", "done"}

\* the Job created the marker and has not reached its finally clause
Holding(j) == job[j].claimed /\ job[j].pc \notin {"finally", "unlink", "done"}

\* the Job moved the file to pending and has neither finalized nor rolled back
Staged(j) ==
    /\ job[j].staged # NoId
    /\ job[j].pc \in {"extract", "transcribe", "write_t", "write_s", "move2",
                      "except", "rollback"}

\* the Job ends with this step
Terminates(j) == job[j].pc # "done" /\ job'[j].pc = "done"

\* C1: no two Jobs for the same file name hold the claim at the same time
\* (of concurrent Jobs for one name exactly one reaches Claimed)
C1_ExclusiveClaim ==
    \A j, k \in Jobs :
        (j # k /\ Holding(j) /\ Holding(k)) => job[j].src # job[k].src

\* C2: at most one Job for a file name is between Staged and its terminal
\* state at any time
C2_StagingExclusive ==
    \A j, k \in Jobs :
        (j # k /\ Staged(j) /\ Staged(k)) => job[j].src # job[k].src

\* C3: a claim marker is in the watch directory only while a Job that
\* created the marker of that file name has not returned: every exit path
\* after the acquisition releases, so no marker outlives the Jobs in flight
C3_MarkerHasLiveOwner ==
    \A j \in Jobs :
        (job[j].src # NoName /\ LockFile(job[j].src) \in DOMAIN watch) =>
            \E k \in Jobs : /\ job[k].src = job[j].src
                            /\ job[k].claimed
                            /\ job[k].pc # "done"

\* C3 witness: a Job that created the marker returned after a failure that
\* came before pending_path was computed, and the marker is gone
C3_Witness ==
    \E j \in Jobs :
        /\ job[j].pc = "done" /\ job[j].claimed
        /\ ~job[j].pending_bound /\ job[j].output_folder # NoFolder
        /\ LockFile(job[j].src) \notin DOMAIN watch

\* C4: an output folder that holds a media file holds transcription.txt
\* and stats.json
C4_ArtifactsBeforeMedia ==
    \A f \in DOMAIN out :
        out[f].media # Empty => (out[f].transcript # 0 /\ out[f].stats # 0)

\* C4 witness: a Job finalized: its folder holds the media file
C4_Witness ==
    \E j \in Jobs :
        /\ job[j].outcome = "finalized"
        /\ job[j].src \in DOMAIN out[job[j].output_folder].media

\* C5: a Job that staged the file and then failed terminates with the file
\* back at its watch path, absent from pending and absent from its folder
C5_RollbackRestores ==
    [][\A j \in Jobs :
         (Terminates(j) /\ job[j].staged # NoId
            /\ job[j].outcome \in {"failed", "rolledback"}) =>
           /\ job[j].src \in DOMAIN watch' /\ watch'[job[j].src] = job[j].staged
           /\ job[j].src \notin DOMAIN pending'
           /\ job[j].src \notin DOMAIN out'[job[j].output_folder].media]_vars

\* C6: when a Job reaches Finalized its media file is neither in watch nor
\* in pending, it is in the Job's output folder, and the transcript and
\* the stats record of that folder are the ones this Job wrote
C6_RoundTrip ==
    [][\A j \in Jobs :
         (job[j].outcome # "finalized" /\ job'[j].outcome = "finalized") =>
           LET n == job[j].src
               f == out'[job[j].output_folder] IN
           /\ \A m \in DOMAIN watch' : watch'[m] # job[j].staged
           /\ n \notin DOMAIN pending'
           /\ n \in DOMAIN f.media /\ f.media[n] = job[j].staged
           /\ f.transcript = j /\ f.stats = j]_vars

\* C7: of two Jobs in flight for the same file name at most one has
\* executed output_folder.mkdir
C7_OneFolderPerFile ==
    \A j, k \in Jobs :
        (j # k /\ InFlight(j) /\ InFlight(k) /\ job[j].src = job[k].src) =>
            ~(job[j].pending_bound /\ job[k].pending_bound)

\* C8: no step of a Job that found the marker present changes the watch,
\* pending or output directory (the marker included)
C8_AbandonHasNoEffect ==
    [][\A j \in Jobs :
         (job[j].outcome = "abandoned" /\ job'[j] # job[j]) =>
            UNCHANGED <<watch, pending, out>>]_vars

\* the events the filter is to reject: a directory, a name that starts
\* with a dot, an extension outside the supported ones
Extension(n) == IF Len(n) >= 2 THEN Lower(n[Len(n)]) ELSE ""
Ignorable(n) ==
    \/ n = DirName
    \/ (Len(n) >= 1 /\ n[1] = "")
    \/ Extension(n) \notin {"mp4", "mkv", "avi", "mov", "mp3", "wav", "m4a"}

\* C9: a Job for a directory, a dotted name or an unsupported extension
\* ends at the filter: no marker, no output folder, no move; the entries
\* such events are about stay where they are
C9_FilteredHasNoEffect ==
    /\ \A j \in Jobs :
          (job[j].src # NoName /\ Ignorable(job[j].src)) =>
             /\ job[j].pc = "done" /\ job[j].outcome = "ignored"
             /\ ~job[j].claimed
             /\ job[j].output_folder = NoFolder
             /\ job[j].staged = NoId
    /\ \A n \in StaticNames :
          /\ n \in DOMAIN watch /\ watch[n] = StaticId(n)
          /\ n \notin DOMAIN pending
          /\ LockFile(n) \notin DOMAIN watch
          /\ \A f \in DOMAIN out : n \notin DOMAIN out[f].media

\* C9 witness: events for a hidden name and for a directory were both
\* filtered
C9_Witness ==
    \E j, k \in Jobs :
        /\ job[j].src = HiddenName /\ job[j].outcome = "ignored"
        /\ job[k].src = DirName /\ job[k].outcome = "ignored"

\* C10: a file written in two chunks ChunkGap apart is not claimed until a
\* poll interval after the second chunk
C10_ClaimAfterLastChunk ==
    \A j \in Jobs :
        (job[j].claimed /\ job[j].src \in DropNames) =>
            (writer.chunks = 2 /\ now >= writer.wrote + check_interval)

C12_TrueAtFirstStablePair ==
    [][\A j \in Jobs :
          LET r == job[j]
              s == r.samples
              present == r.src \in DOMAIN watch
              intime == now - r.start_time < timeout
              stable == /\ intime /\ present
                        /\ Len(s) >= 1
                        /\ size[watch[r.src]] > 0
                        /\ s[Len(s)] = size[watch[r.src]]
          IN  (r.pc = "poll" /\ job'[j] # r)
              => /\ Len(s) * check_interval = now - r.start_time
                 /\ \A i \in 1..(Len(s) - 1) : ~(s[i] = s[i + 1] /\ s[i] > 0)
                 /\ (job'[j].pc = "exists2") <=> stable
                 /\ (job'[j].pc = "done") <=> (~intime \/ ~present)
                 /\ (job'[j].pc = "sleep") <=> (intime /\ present /\ ~stable)
                 /\ job'[j].pc = "sleep" =>
                        job'[j].wake = now + check_interval]_vars

\* C12 witness: the wait returned True on the third sample of a file that
\* was empty at the first
C12_Witness ==
    \E j \in Jobs :
        /\ job[j].pc = "exists2"
        /\ Len(job[j].samples) >= 3
        /\ job[j].samples[1] = 0

\* C13: no exception leaves on_created, whichever step of the Job fails
C13_NoExceptionEscapes ==
    \A j \in Jobs : ~job[j].escaped

\* C14: the release of lines 139-140 never raises, also when the marker is
\* removed by somebody else between the exists() and the unlink(), and it
\* leaves the marker absent
C14_ReleaseNeverRaises ==
    [][\A j \in Jobs :
          (job[j].pc \in {"finally", "unlink"} /\ job'[j] # job[j])
          => /\ job'[j].escaped = job[j].escaped
             /\ job'[j].pc = "done" =>
                    LockFile(job[j].src) \notin DOMAIN watch']_vars

\* C16: no two Jobs create or write the same output folder; here for Jobs
\* of two different files (two Jobs of one file are the case of C7)
C16_FoldersNeverShared ==
    \A j, k \in Jobs :
        (/\ job[j].pending_bound /\ job[k].pending_bound
         /\ job[j].src # job[k].src)
        => job[j].output_folder # job[k].output_folder

\* the output folder of a Job that created one
FolderOf(j) == out[job[j].output_folder]

HasAll(j) ==
    /\ FolderOf(j).transcript # 0
    /\ FolderOf(j).stats # 0
    /\ job[j].src \in DOMAIN FolderOf(j).media

HasNone(j) ==
    /\ FolderOf(j).transcript = 0
    /\ FolderOf(j).stats = 0
    /\ job[j].src \notin DOMAIN FolderOf(j).media

\* C17 as stated: the folder of a terminated Job holds all three of
\* transcription.txt, stats.json and the media file, or none of them
C17_AllOrNone ==
    \A j \in Jobs :
        (job[j].pc = "done" /\ job[j].pending_bound) => (HasAll(j) \/ HasNone(j))

\* C17 amended: the folder of a terminated Job that finalized holds all
\* three; the folder of a terminated Job that failed holds the media file
\* only together with the transcript and the stats record, but it may hold
\* a transcript or a stats record without the media file
C17_AllIfFinalized ==
    \A j \in Jobs :
        (job[j].pc = "done" /\ job[j].pending_bound) =>
            /\ job[j].outcome = "finalized" => HasAll(j)
            /\ job[j].src \in DOMAIN FolderOf(j).media =>
                   (FolderOf(j).transcript # 0 /\ FolderOf(j).stats # 0)

\* C17 witness: one Job failed after it wrote the transcript and left a
\* folder without the media file, another finalized with all three
C17_Witness ==
    \E j, k \in Jobs :
        /\ job[j].pc = "done" /\ job[j].outcome \in {"failed", "rolledback"}
        /\ job[j].pending_bound
        /\ FolderOf(j).transcript # 0 /\ FolderOf(j).media = Empty
        /\ job[k].pc = "done" /\ job[k].outcome = "finalized" /\ HasAll(k)

\* the number of places where the file with this id is
Copies(id) ==
    Cardinality({n \in DOMAIN watch : watch[n] = id})
    + Cardinality({n \in DOMAIN pending : pending[n] = id})
    + Cardinality({x \in (DOMAIN out) \X DropNames :
                     /\ x[2] \in DOMAIN out[x[1]].media
                     /\ out[x[1]].media[x[2]] = id})

\* C18: every media file that was dropped is at exactly one place: its
\* watch path, its pending path or one output folder
C18_SingleLocation ==
    \A id \in FirstDropId..(nextId - 1) : Copies(id) = 1

\* C19: a Job moves a file out of pending back to watch only if its own
\* move to pending succeeded, and while a Job holds a staged file no step
\* of another Job takes the file away from its pending path (a move of
\* another file onto that path is the overwriting of C18)
C19_RollbackOnlyOwnFile ==
    [][\A j \in Jobs :
          /\ (job[j].pc = "rollback" /\ job'[j] # job[j] /\ pending' # pending)
             => job[j].staged # NoId
          /\ \A k \in Jobs \ {j} :
                (/\ job'[j] # job[j]
                 /\ Staged(k)
                 /\ job[k].src \in DOMAIN pending
                 /\ pending[job[k].src] = job[k].staged)
                => job[k].src \in DOMAIN pending']_vars

\* the name of a claim marker: its last extension is "processing"
IsMarkerName(n) == Len(n) >= 2 /\ n[Len(n)] = "processing"

\* C20: a creation event for a claim marker ends at the filter: its Job
\* takes no claim and creates nothing; every marker in the watch directory
\* is the marker of a media file name that passes the filter, never the
\* marker of a marker, and no marker is ever staged
C20_MarkersStartNoJobs ==
    /\ \A j \in Jobs :
          IsMarkerName(job[j].src) =>
             /\ job[j].pc = "done" /\ job[j].outcome = "ignored"
             /\ ~job[j].claimed
             /\ LockFile(job[j].src) \notin DOMAIN watch
    /\ \A n \in DOMAIN watch :
          (watch[n] = Marker \/ IsMarkerName(n)) =>
             LET base == SubSeq(n, 1, Len(n) - 1) IN
             /\ watch[n] = Marker
             /\ n = LockFile(base)
             /\ PassesFilter(FALSE, base)
             /\ ~IsMarkerName(base)
    /\ \A n \in DOMAIN pending : ~IsMarkerName(n)

\* C20 witness: while a marker was in the watch directory, a creation
\* event for it was dispatched and filtered
C20_Witness ==
    \E j, k \in Jobs :
        /\ job[k].claimed /\ job[k].pc = "mkdir"
        /\ job[j].src = LockFile(job[k].src)
        /\ job[j].src \in DOMAIN watch
        /\ job[j].outcome = "ignored"

====
